---- MODULE Spec2Model ----
(***************************************************************************)
(* Journey analysis (newjourney1.py): load_and_process_data turns raw      *)
(* tab-separated text into a table of derived records, and main computes   *)
(* the speed, rush-hour, route-efficiency and environmental summaries.     *)
(*                                                                         *)
(* Representation.  A text is a sequence of tokens: the separators TAB and *)
(* NL, a run of spaces SP, and opaque words (a label, a timestamp string   *)
(* in the format '%Y-%m-%d %H:%M:%S.%f', a decimal literal, or junk).      *)
(* A timestamp is a number of seconds counted from midnight of the first   *)
(* day.  Coordinates are hundredths of a degree.  Distances are counted in *)
(* hundredths of an equatorial degree of arc (1 unit = 1.11319 km), speeds *)
(* in that unit per hour, durations in hundredths of a minute.            *)
(***************************************************************************)
EXTENDS Integers, Sequences, FiniteSets, TLC

VARIABLES data_text, pc, lines, i, cleaned_data, df, err,
          speed_std, high_speed_segments, low_speed_segments,
          morning_rush, evening_rush, straight_line_distance,
          route_efficiency, fuel_consumption, co2_emissions, metrics, out

vars == <<data_text, pc, lines, i, cleaned_data, df, err,
          speed_std, high_speed_segments, low_speed_segments,
          morning_rush, evening_rush, straight_line_distance,
          route_efficiency, fuel_consumption, co2_emissions, metrics, out>>

summaryVars == <<speed_std, high_speed_segments, low_speed_segments,
                 morning_rush, evening_rush, straight_line_distance,
                 route_efficiency, fuel_consumption, co2_emissions, metrics, out>>

\* ------------------------------------------------------------------ bounds

\* The longest input, in lines.
MaxLines == 3

\* ------------------------------------------------------- program constants

\* 10 minutes between readings (speed_kmh = distance_km / (10/60)).
NominalMinutes == 10
MorningStart == 7
MorningEnd == 9
EveningStart == 16
EveningEnd == 18
\* route_efficiency < 0.8, as the fraction 8/10.
EfficiencyNum == 8
EfficiencyDen == 10
\* 0.08 litres per km, in hundredths.
FuelRate == 8
\* 2.31 kg CO2 per litre, in hundredths.
Co2Rate == 231

\* ------------------------------------------------------------------ tokens

TAB == [k |-> "tab", v |-> 0]
NL == [k |-> "nl", v |-> 0]
SP == [k |-> "sp", v |-> 0]
LabelTok == [k |-> "label", v |-> 0]
JunkTok == [k |-> "junk", v |-> 0]
TsTok(t) == [k |-> "ts", v |-> t]
NumTok(n) == [k |-> "num", v |-> n]

\* str.strip() with no argument removes spaces, tabs and newlines.
IsSpace(c) == c.k \in {"tab", "nl", "sp"}

\* ------------------------------------------------------------ str methods

\* s.strip(): s without its leading and trailing whitespace.
Strip(s) ==
  IF \A j \in 1..Len(s) : IsSpace(s[j]) THEN <<>>
  ELSE LET a == CHOOSE a \in 1..Len(s) :
                  ~IsSpace(s[a]) /\ \A j \in 1..(a - 1) : IsSpace(s[j])
           b == CHOOSE b \in 1..Len(s) :
                  ~IsSpace(s[b]) /\ \A j \in (b + 1)..Len(s) : IsSpace(s[j])
       IN SubSeq(s, a, b)

RECURSIVE Split(_, _)
\* s.split(sep): the pieces of s between the separators; ''.split(sep) is [''].
Split(s, sep) ==
  IF \A j \in 1..Len(s) : s[j] # sep THEN <<s>>
  ELSE LET a == CHOOSE a \in 1..Len(s) :
                  s[a] = sep /\ \A j \in 1..(a - 1) : s[j] # sep
       IN <<SubSeq(s, 1, a - 1)>> \o Split(SubSeq(s, a + 1, Len(s)), sep)

\* datetime.strptime(field, '%Y-%m-%d %H:%M:%S.%f') succeeds only on a string
\* that is exactly a timestamp in that format.
IsTimestamp(field) == Len(field) = 1 /\ field[1].k = "ts"

\* float(field) accepts a decimal literal with surrounding whitespace.
IsFloat(field) == Len(Strip(field)) = 1 /\ Strip(field)[1].k = "num"

\* ---------------------------------------------------------- calendar fields

DateOf(t) == t \div 86400
TimeOf(t) == t % 86400
HourOf(t) == (t \div 3600) % 24
MinuteOf(t) == (t \div 60) % 60

\* ------------------------------------------------------------------ parsing

NoRecord == [timestamp |-> 0, latitude |-> 0, longitude |-> 0,
             date |-> 0, time |-> 0, hour |-> 0, minute |-> 0]

\* The body of the parsing loop on one line: the record, or the exception
\* that the first failing statement raises.
ParseRecord(line) ==
  LET parts == Split(line, TAB)
  IN IF Len(parts) < 2 THEN [err |-> "IndexError", record |-> NoRecord]
     ELSE IF ~IsTimestamp(parts[2]) THEN [err |-> "ValueError", record |-> NoRecord]
     ELSE IF Len(parts) < 3 THEN [err |-> "IndexError", record |-> NoRecord]
     ELSE IF ~IsFloat(parts[3]) THEN [err |-> "ValueError", record |-> NoRecord]
     ELSE IF Len(parts) < 4 THEN [err |-> "IndexError", record |-> NoRecord]
     ELSE IF ~IsFloat(parts[4]) THEN [err |-> "ValueError", record |-> NoRecord]
     ELSE LET timestamp == parts[2][1].v
          IN [err |-> "none",
              record |-> [timestamp |-> timestamp,
                          latitude |-> Strip(parts[3])[1].v,
                          longitude |-> Strip(parts[4])[1].v,
                          date |-> DateOf(timestamp),
                          time |-> TimeOf(timestamp),
                          hour |-> HourOf(timestamp),
                          minute |-> MinuteOf(timestamp)]]

\* A lenient loop body: a line that does not parse is skipped.
ParseStepLenient(cleaned, line) ==
  LET r == ParseRecord(line)
  IN IF r.err = "none" THEN [err |-> "none", cleaned |-> Append(cleaned, r.record)]
     ELSE [err |-> "none", cleaned |-> cleaned]

\* One iteration of the parsing loop: the record is appended, or the
\* exception leaves the loop and the function.
ParseStep(cleaned, line) ==
  LET r == ParseRecord(line)
  IN IF r.err = "none" THEN [err |-> "none", cleaned |-> Append(cleaned, r.record)]
     ELSE [err |-> r.err, cleaned |-> cleaned]

\* ------------------------------------------------------------------- inputs

\* Sampled positions (latitude, longitude): three on the equator and one off it.
PointA == <<0, 0>>
PointB == <<0, 90>>
PointC == <<0, 80>>
PointD == <<30, 40>>
Points == {PointA, PointB, PointC, PointD}

\* 04:27:31 and 04:47:32 of the first day.
Times == {16051, 17252}

\* 06:59:59, 07:00:00, 09:59:59, 10:00:00, 15:59:59, 16:00:00, 18:59:59, 19:00:00
\* of the first day, and 08:00:00 of the second.
HourTimes == {25199, 25200, 35999, 36000, 57599, 57600, 68399, 68400, 115200}

GoodLine(t, p) == <<LabelTok, TAB, TsTok(t), TAB, NumTok(p[1]), TAB, NumTok(p[2])>>

GoodLines == {GoodLine(t, p) : t \in Times, p \in Points}

OddLines ==
  { <<>>,                                                     \* an empty line
    <<SP>>,                                                   \* a line of spaces
    <<SP, JunkTok>>,                                          \* "    # ... (rest of the data)"
    <<LabelTok, TAB, TsTok(16051), TAB, NumTok(0)>>,          \* three fields
    <<LabelTok, TAB, JunkTok, TAB, NumTok(0), TAB, NumTok(0)>>, \* a bad timestamp
    <<TAB, TsTok(16051), TAB, NumTok(0), TAB, NumTok(80)>> }  \* four fields, an empty label

RECURSIVE Join(_)
\* '\n'.join(ls)
Join(ls) == IF Len(ls) = 1 THEN ls[1] ELSE ls[1] \o <<NL>> \o Join(Tail(ls))

TextsOver(lineSet) ==
  { Join(ls) : ls \in UNION { [1..n -> lineSet] : n \in 1..MaxLines } }

\* ------------------------------------------------------------------ geodesic

\* geopy's geodesic(p, q).kilometers on the sampled positions: the WGS84
\* distance, rounded to the unit.
Geodesic(p, q) ==
  IF p = q THEN 0
  ELSE IF {p, q} = {PointA, PointB} THEN 90
  ELSE IF {p, q} = {PointA, PointC} THEN 80
  ELSE IF {p, q} = {PointB, PointC} THEN 10
  ELSE IF {p, q} = {PointA, PointD} THEN 50
  ELSE IF {p, q} = {PointC, PointD} THEN 50
  ELSE IF {p, q} = {PointB, PointD} THEN 58
  ELSE CHOOSE d \in {} : TRUE

Coords(row) == <<row.latitude, row.longitude>>

\* ----------------------------------------------------------- derived columns

\* ((timestamp - timestamp.iloc[0]).total_seconds() / 60).round(2), in
\* hundredths of a minute: seconds * 100 / 60 to the nearest integer (a tie
\* cannot occur: the quotient is a multiple of 1/3).
DurationFromLast(rows) ==
  [j \in 1..Len(rows) |->
     (10 * (rows[j].timestamp - rows[Len(rows)].timestamp) + 3) \div 6]

DurationMinutes(rows) ==
  [j \in 1..Len(rows) |-> (10 * (rows[j].timestamp - rows[1].timestamp) + 3) \div 6]

RECURSIVE CumSumExclusive(_)
CumSumExclusive(xs) ==
  IF Len(xs) = 0 THEN <<>>
  ELSE LET front == SubSeq(xs, 1, Len(xs) - 1)
           prev == CumSumExclusive(front)
       IN Append(prev, IF Len(front) = 0 THEN 0 ELSE prev[Len(front)] + front[Len(front)])

RECURSIVE CumSum(_)
\* Series.cumsum(): the running sum, accumulated left to right.
CumSum(xs) ==
  IF Len(xs) = 0 THEN <<>>
  ELSE LET prev == CumSum(SubSeq(xs, 1, Len(xs) - 1))
       IN Append(prev, (IF Len(prev) = 0 THEN 0 ELSE prev[Len(prev)]) + xs[Len(xs)])

\* Speed over the time actually elapsed since the previous record.
SpeedElapsed(rows) ==
  [j \in 1..Len(rows) |->
     IF j = 1 \/ rows[j].timestamp = rows[j - 1].timestamp THEN 0
     ELSE (rows[j].distance_km * 3600) \div (rows[j].timestamp - rows[j - 1].timestamp)]

\* df['distance_km'] / (10/60)
SpeedKmh(rows) ==
  [j \in 1..Len(rows) |-> (rows[j].distance_km * 60) \div NominalMinutes]

\* -------------------------------------------------------------------- state

Unset == [kind |-> "unset", num |-> 0, den |-> 1]

InitWith(texts) ==
  /\ data_text \in texts
  /\ pc = "start"
  /\ lines = <<>>
  /\ i = 0
  /\ cleaned_data = <<>>
  /\ df = <<>>
  /\ err = "none"
  /\ speed_std = Unset
  /\ high_speed_segments = {}
  /\ low_speed_segments = {}
  /\ morning_rush = {}
  /\ evening_rush = {}
  /\ straight_line_distance = 0
  /\ route_efficiency = Unset
  /\ fuel_consumption = 0
  /\ co2_emissions = 0
  /\ metrics = <<>>
  /\ out = {}

Init == InitWith(TextsOver(GoodLines \cup OddLines))

\* ------------------------------------------------- load_and_process_data

\* lines = data_text.strip().split('\n')
SplitLines ==
  /\ pc = "start"
  /\ lines' = Split(Strip(data_text), NL)
  /\ i' = 1
  /\ pc' = "parse"
  /\ UNCHANGED <<data_text, cleaned_data, df, err, summaryVars>>

\* for line in lines: one iteration.  An exception is caught nowhere: it
\* ends load_and_process_data and main.
ParseLine ==
  /\ pc = "parse"
  /\ i <= Len(lines)
  /\ LET r == ParseStep(cleaned_data, lines[i])
     IN /\ cleaned_data' = r.cleaned
        /\ err' = r.err
        /\ pc' = IF r.err # "none" THEN "raised" ELSE "parse"
        /\ i' = i + 1
  /\ UNCHANGED <<data_text, lines, df, summaryVars>>

\* df = pd.DataFrame(cleaned_data); duration_minutes; distance_km = 0.0.
\* A frame of no records has no 'timestamp' column.
BuildFrame ==
  /\ pc = "parse"
  /\ i > Len(lines)
  /\ IF cleaned_data = <<>>
     THEN /\ err' = "KeyError"
          /\ pc' = "raised"
          /\ UNCHANGED <<df, i>>
     ELSE /\ LET duration == DurationMinutes(cleaned_data)
             IN df' = [j \in 1..Len(cleaned_data) |->
                         cleaned_data[j] @@ [duration_minutes |-> duration[j],
                                             distance_km |-> 0]]
          /\ i' = 2
          /\ pc' = "distance"
          /\ UNCHANGED err
  /\ UNCHANGED <<data_text, lines, cleaned_data, summaryVars>>

\* for i in range(1, len(df)): one iteration (i is one more than the code's).
DistanceStep ==
  /\ pc = "distance"
  /\ i <= Len(df)
  /\ df' = [df EXCEPT ![i] =
              [@ EXCEPT !.distance_km = Geodesic(Coords(df[i - 1]), Coords(df[i]))]]
  /\ i' = i + 1
  /\ UNCHANGED <<data_text, pc, lines, cleaned_data, err, summaryVars>>

\* cumulative_distance, speed_kmh; return df.
FinishLoad ==
  /\ pc = "distance"
  /\ i > Len(df)
  /\ LET cum == CumSum([j \in 1..Len(df) |-> df[j].distance_km])
         speed == SpeedKmh(df)
     IN df' = [j \in 1..Len(df) |->
                 df[j] @@ [cumulative_distance |-> cum[j], speed_kmh |-> speed[j]]]
  /\ pc' = "loaded"
  /\ UNCHANGED <<data_text, lines, i, cleaned_data, err, summaryVars>>

\* ---------------------------------------------------------- Series helpers

RECURSIVE SumSeq(_)
SumSeq(xs) == IF Len(xs) = 0 THEN 0 ELSE xs[1] + SumSeq(Tail(xs))

\* Series.max()
MaxSeq(xs) == CHOOSE m \in {xs[j] : j \in 1..Len(xs)} : \A j \in 1..Len(xs) : xs[j] <= m

Column(rows, name) == [j \in 1..Len(rows) |-> rows[j][name]]

Squares(xs) == [j \in 1..Len(xs) |-> xs[j] * xs[j]]

\* ------------------------------------------------------------ speed patterns

\* Series.mean(), as the fraction num / den.
Mean(xs) == [num |-> SumSeq(xs), den |-> Len(xs)]

\* Series.std(): the sample standard deviation (ddof = 1), kept as the square
\* root of the fraction num / den; NaN for a single value.
Std(xs) ==
  LET n == Len(xs)
      s == SumSeq(xs)
      q == SumSeq(Squares(xs))
  IN IF n < 2 THEN [kind |-> "nan", num |-> 0, den |-> 1]
     ELSE [kind |-> "sqrt", num |-> n * q - s * s, den |-> n * (n - 1)]

\* x > mean + std, which is false when std is NaN:
\* x - s/n > sqrt(num/den)  iff  n*x - s > 0 and (n*x - s)^2 * den > n^2 * num.
AboveBand(x, mean, std) ==
  LET d == mean.den * x - mean.num
  IN /\ std.kind = "sqrt"
     /\ d > 0
     /\ d * d * std.den > mean.den * mean.den * std.num

\* x < mean - std, which is false when std is NaN.
BelowBand(x, mean, std) ==
  LET d == mean.num - mean.den * x
  IN /\ std.kind = "sqrt"
     /\ d > 0
     /\ d * d * std.den > mean.den * mean.den * std.num

\* The high-speed filter with >= for >.
HighSpeedInclusive(rows) ==
  LET speeds == Column(rows, "speed_kmh")
      mean == Mean(speeds)
      std == Std(speeds)
      d(j) == mean.den * speeds[j] - mean.num
  IN {j \in 1..Len(rows) :
        /\ std.kind = "sqrt"
        /\ d(j) >= 0
        /\ d(j) * d(j) * std.den >= mean.den * mean.den * std.num}

\* df[df['speed_kmh'] > df['speed_kmh'].mean() + speed_std]
HighSpeed(rows) ==
  LET speeds == Column(rows, "speed_kmh")
  IN {j \in 1..Len(rows) : AboveBand(speeds[j], Mean(speeds), Std(speeds))}

\* df[df['speed_kmh'] < df['speed_kmh'].mean() - speed_std]
LowSpeed(rows) ==
  LET speeds == Column(rows, "speed_kmh")
  IN {j \in 1..Len(rows) : BelowBand(speeds[j], Mean(speeds), Std(speeds))}

\* ---------------------------------------------------------------- rush hours

\* The morning filter with < for the upper <=.
MorningRushExclusive(rows) ==
  {j \in 1..Len(rows) : rows[j].hour >= MorningStart /\ rows[j].hour < MorningEnd}

\* df[(df['hour'] >= 7) & (df['hour'] <= 9)]
MorningRush(rows) ==
  {j \in 1..Len(rows) : rows[j].hour >= MorningStart /\ rows[j].hour <= MorningEnd}

\* df[(df['hour'] >= 16) & (df['hour'] <= 18)]
EveningRush(rows) ==
  {j \in 1..Len(rows) : rows[j].hour >= EveningStart /\ rows[j].hour <= EveningEnd}

\* ---------------------------------------------------------- route efficiency

\* a / b where b is a numpy float64: no exception on b = 0, but NaN (0/0) or
\* infinity.
Divide(a, b) ==
  IF b = 0 THEN [kind |-> IF a = 0 THEN "nan" ELSE "inf", num |-> a, den |-> b]
  ELSE [kind |-> "num", num |-> a, den |-> b]

\* The threshold test with <= for <.
BelowThresholdInclusive(e) ==
  e.kind = "num" /\ e.num * EfficiencyDen <= EfficiencyNum * e.den

\* route_efficiency < 0.8: false for NaN and for infinity.
BelowThreshold(e) ==
  e.kind = "num" /\ e.num * EfficiencyDen < EfficiencyNum * e.den

\* --------------------------------------------------------------------- main

\* 1. Journey Overview: the three metrics.
Overview ==
  /\ pc = "loaded"
  /\ metrics' = <<MaxSeq(Column(df, "duration_minutes")),
                  MaxSeq(Column(df, "cumulative_distance")),
                  Mean(Column(df, "speed_kmh"))>>
  /\ pc' = "speed"
  /\ UNCHANGED <<data_text, lines, i, cleaned_data, df, err, speed_std,
                 high_speed_segments, low_speed_segments, morning_rush,
                 evening_rush, straight_line_distance, route_efficiency,
                 fuel_consumption, co2_emissions, out>>

\* Speed Pattern Analysis.
SpeedAnalysis ==
  /\ pc = "speed"
  /\ speed_std' = Std(Column(df, "speed_kmh"))
  /\ high_speed_segments' = HighSpeed(df)
  /\ low_speed_segments' = LowSpeed(df)
  /\ out' = out \cup (IF HighSpeed(df) # {} THEN {"consistent speeds"} ELSE {})
  /\ pc' = "time"
  /\ UNCHANGED <<data_text, lines, i, cleaned_data, df, err, morning_rush,
                 evening_rush, straight_line_distance, route_efficiency,
                 fuel_consumption, co2_emissions, metrics>>

\* Time Efficiency Analysis.
TimeAnalysis ==
  /\ pc = "time"
  /\ morning_rush' = MorningRush(df)
  /\ evening_rush' = EveningRush(df)
  /\ out' = out \cup (IF MorningRush(df) # {} THEN {"morning rush"} ELSE {})
                \cup (IF EveningRush(df) # {} THEN {"evening rush"} ELSE {})
  /\ pc' = "route"
  /\ UNCHANGED <<data_text, lines, i, cleaned_data, df, err, speed_std,
                 high_speed_segments, low_speed_segments, straight_line_distance,
                 route_efficiency, fuel_consumption, co2_emissions, metrics>>

\* Route Efficiency Analysis.
RouteEfficiency ==
  /\ pc = "route"
  /\ LET straight == Geodesic(Coords(df[1]), Coords(df[Len(df)]))
         e == Divide(straight, MaxSeq(Column(df, "cumulative_distance")))
     IN /\ straight_line_distance' = straight
        /\ route_efficiency' = e
        /\ out' = out \cup (IF BelowThreshold(e) THEN {"direct routes"} ELSE {})
  /\ pc' = "environment"
  /\ UNCHANGED <<data_text, lines, i, cleaned_data, df, err, speed_std,
                 high_speed_segments, low_speed_segments, morning_rush,
                 evening_rush, fuel_consumption, co2_emissions, metrics>>

\* 5. Environmental Impact.
Environment ==
  /\ pc = "environment"
  /\ fuel_consumption' = MaxSeq(Column(df, "cumulative_distance")) * FuelRate
  /\ co2_emissions' = MaxSeq(Column(df, "cumulative_distance")) * FuelRate * Co2Rate
  /\ pc' = "done"
  /\ UNCHANGED <<data_text, lines, i, cleaned_data, df, err, speed_std,
                 high_speed_segments, low_speed_segments, morning_rush,
                 evening_rush, straight_line_distance, route_efficiency,
                 metrics, out>>

Next ==
  \/ SplitLines
  \/ ParseLine
  \/ BuildFrame
  \/ DistanceStep
  \/ FinishLoad
  \/ Overview
  \/ SpeedAnalysis
  \/ TimeAnalysis
  \/ RouteEfficiency
  \/ Environment

Spec == Init /\ [][Next]_vars

\* The same program on journeys that cross the hours of the day.
InitHours ==
  InitWith(TextsOver({GoodLine(t, p) : t \in HourTimes, p \in {PointA}}
                     \cup {<<>>, GoodLine(16051, PointB)}))

SpecHours == InitHours /\ [][Next]_vars


\* ------------------------------------------------------------------- claims

\* load_and_process_data has ended: it raised, or it returned the table.
Settled == pc \notin {"start", "parse", "distance"}

\* load_and_process_data has returned the table.
Loaded == pc \in {"loaded", "speed", "time", "route", "environment", "done"}

\* The lines of the input as written, before any stripping.
RawLines == Split(data_text, NL)

\* A line that holds something other than whitespace.
HasText(line) == \E j \in 1..Len(line) : ~IsSpace(line[j])

\* A well-formed 4-field record: label, timestamp, latitude, longitude.
WellFormed(line) ==
  LET parts == Split(line, TAB)
  IN /\ Len(parts) = 4
     /\ HasText(parts[1])
     /\ IsTimestamp(parts[2])
     /\ IsFloat(parts[3])
     /\ IsFloat(parts[4])

\* The exceptions that the parsing loop raises on a record it cannot read
\* (the code has no exception class of its own): the error kind of a
\* malformed record.
MalformedRecordError == {"IndexError", "ValueError"}

NonDecreasing(xs) == \A j \in 2..Len(xs) : xs[j - 1] <= xs[j]

\* C1: in the returned table the first record has distance 0 and cumulative
\* distance 0, and every later cumulative distance is the one before it plus
\* the record's own segment distance.
C1_CumulativeSum ==
  Loaded =>
    /\ df[1].distance_km = 0
    /\ df[1].cumulative_distance = 0
    /\ \A j \in 2..Len(df) :
         df[j].cumulative_distance = df[j - 1].cumulative_distance + df[j].distance_km

\* C1 witness: a table of three records with two different positive segments.
C1_Witness ==
  /\ Loaded
  /\ Len(df) = 3
  /\ df[2].distance_km > 0
  /\ df[3].distance_km > 0
  /\ df[2].distance_km # df[3].distance_km

\* C2 (as claimed): when the input has records and every non-empty line of
\* it is a well-formed record, load_and_process_data returns one record per
\* non-empty line, in the order of the lines, empty lines being skipped.
C2_OneRecordPerNonEmptyLine ==
  LET nonEmpty == SelectSeq(RawLines, LAMBDA l : l # <<>>)
  IN (/\ Settled
      /\ Len(nonEmpty) >= 1
      /\ \A k \in 1..Len(nonEmpty) : WellFormed(nonEmpty[k])) =>
       /\ err = "none"
       /\ Len(cleaned_data) = Len(nonEmpty)
       /\ \A k \in 1..Len(nonEmpty) :
            LET parts == Split(nonEmpty[k], TAB)
            IN /\ cleaned_data[k].timestamp = parts[2][1].v
               /\ cleaned_data[k].latitude = Strip(parts[3])[1].v
               /\ cleaned_data[k].longitude = Strip(parts[4])[1].v

\* C3: when a line of the input that holds text has fewer than 4
\* tab-separated fields, load_and_process_data raises the error of a
\* malformed record and returns no table, whatever records it had parsed.
C3_MalformedFailsFast ==
  (Settled /\ \E k \in 1..Len(RawLines) :
                 HasText(RawLines[k]) /\ Len(Split(RawLines[k], TAB)) < 4) =>
    /\ pc = "raised"
    /\ err \in MalformedRecordError
    /\ df = <<>>

\* C3 witness: the load has raised on a short line after it had parsed a
\* well-formed record.
C3_Witness ==
  /\ pc = "raised"
  /\ Len(cleaned_data) >= 1
  /\ \E k \in 2..Len(RawLines) :
       HasText(RawLines[k]) /\ Len(Split(RawLines[k], TAB)) < 4

\* C4 (as claimed): an input of nothing but whitespace and newlines fails
\* with an error of its own kind, not the error of a malformed record.
C4_EmptyJourneyError ==
  (Settled /\ \A j \in 1..Len(data_text) : IsSpace(data_text[j])) =>
    /\ pc = "raised"
    /\ err \notin MalformedRecordError

\* C5 (as claimed): when the final cumulative distance is 0, the route
\* efficiency is reported as not applicable: no division by 0 is made and no
\* numeric value, NaN or infinity is produced.
C5_DegenerateRouteReported ==
  (pc \in {"environment", "done"} /\ df[Len(df)].cumulative_distance = 0) =>
    route_efficiency.kind \notin {"num", "nan", "inf"}

\* C6: every record's speed is its segment distance over the nominal 10
\* minutes (speed * 10 = distance * 60), whatever the timestamps are: the
\* first speed is 0, a record at its predecessor's position has distance 0
\* and speed 0, and the same table with other timestamps has the same speeds.
C6_SpeedOverNominalInterval ==
  Loaded =>
    /\ \A j \in 1..Len(df) : df[j].speed_kmh * 10 = df[j].distance_km * 60
    /\ df[1].speed_kmh = 0
    /\ \A j \in 2..Len(df) :
         Coords(df[j]) = Coords(df[j - 1]) =>
           df[j].distance_km = 0 /\ df[j].speed_kmh = 0
    /\ \A t \in Times :
         SpeedKmh([j \in 1..Len(df) |-> [df[j] EXCEPT !.timestamp = t]])
           = Column(df, "speed_kmh")

\* C6 witness: a table with a positive segment whose records are not 10
\* minutes apart, and a record at its predecessor's position.
C6_Witness ==
  /\ Loaded
  /\ \E j \in 2..Len(df) :
       df[j].distance_km > 0 /\ df[j].timestamp - df[j - 1].timestamp # 600
  /\ \E j \in 2..Len(df) : Coords(df[j]) = Coords(df[j - 1])

\* C7 (as claimed): in every returned table the cumulative distance and the
\* duration are non-decreasing, and the first duration is 0.
C7_Monotone ==
  Loaded =>
    /\ NonDecreasing(Column(df, "cumulative_distance"))
    /\ NonDecreasing(Column(df, "duration_minutes"))
    /\ df[1].duration_minutes = 0

\* C7 (amended): in every returned table the cumulative distance is
\* non-decreasing and the first duration is 0; the duration is non-decreasing
\* when the input's timestamps are.
C7_MonotoneWhenOrdered ==
  Loaded =>
    /\ NonDecreasing(Column(df, "cumulative_distance"))
    /\ df[1].duration_minutes = 0
    /\ NonDecreasing(Column(df, "timestamp")) =>
         NonDecreasing(Column(df, "duration_minutes"))

\* C7 witness: three records in time order, the last later than the first,
\* over a positive distance.
C7_Witness ==
  /\ Loaded
  /\ Len(df) = 3
  /\ NonDecreasing(Column(df, "timestamp"))
  /\ df[1].timestamp < df[3].timestamp
  /\ df[3].cumulative_distance > 0

\* The advice 'Consider more direct routes' is written exactly when the
\* efficiency is below 8/10.
FlaggedBelowThreshold ==
  ("direct routes" \in out) <=> (route_efficiency.num * 10 < 8 * route_efficiency.den)

\* C8 (as claimed): when the final cumulative distance is positive the route
\* efficiency, straight-line distance over final cumulative distance, is in
\* (0, 1], and the route is flagged exactly when it is below 0.8.
C8_EfficiencyHalfOpen ==
  (pc \in {"environment", "done"} /\ df[Len(df)].cumulative_distance > 0) =>
    /\ route_efficiency.kind = "num"
    /\ route_efficiency.num = Geodesic(Coords(df[1]), Coords(df[Len(df)]))
    /\ route_efficiency.den = df[Len(df)].cumulative_distance
    /\ 0 < route_efficiency.num
    /\ route_efficiency.num <= route_efficiency.den
    /\ FlaggedBelowThreshold

\* C8 (amended): when the final cumulative distance is positive the route
\* efficiency is in [0, 1], 0 exactly when the last record is at the first
\* record's position, and the route is flagged exactly when it is below 0.8.
C8_EfficiencyClosed ==
  (pc \in {"environment", "done"} /\ df[Len(df)].cumulative_distance > 0) =>
    /\ route_efficiency.kind = "num"
    /\ route_efficiency.num = Geodesic(Coords(df[1]), Coords(df[Len(df)]))
    /\ route_efficiency.den = df[Len(df)].cumulative_distance
    /\ 0 <= route_efficiency.num
    /\ route_efficiency.num <= route_efficiency.den
    /\ (route_efficiency.num = 0) <=> (Coords(df[1]) = Coords(df[Len(df)]))
    /\ FlaggedBelowThreshold

\* C8 witness: a route whose efficiency is exactly 8/10, not flagged.
C8_Witness ==
  /\ pc \in {"environment", "done"}
  /\ route_efficiency.kind = "num"
  /\ route_efficiency.den > 0
  /\ route_efficiency.num * 10 = 8 * route_efficiency.den
  /\ "direct routes" \notin out

\* C9: the morning message is written exactly when some record's timestamp
\* has an hour from 7 to 9, the evening message exactly when some record's
\* has an hour from 16 to 18, each whatever the other is.
C9_RushHourFlags ==
  pc \in {"route", "environment", "done"} =>
    /\ ("morning rush" \in out) <=>
         (\E j \in 1..Len(df) : (df[j].timestamp \div 3600) % 24 \in 7..9)
    /\ ("evening rush" \in out) <=>
         (\E j \in 1..Len(df) : (df[j].timestamp \div 3600) % 24 \in 16..18)
    /\ (morning_rush # {}) <=> ("morning rush" \in out)
    /\ (evening_rush # {}) <=> ("evening rush" \in out)

\* C9 witness: a journey that crosses both rush hours, with a record outside
\* both.
C9_Witness ==
  /\ pc = "done"
  /\ "morning rush" \in out
  /\ "evening rush" \in out
  /\ \E j \in 1..Len(df) : df[j].hour \notin (7..9) \cup (16..18)

\* C10: over all n records, the first included, with dev(j) = n * speed(j)
\* - sum of speeds, a record is high-speed exactly when dev(j) > 0 and
\* dev(j)^2 * (n - 1) exceeds the sum of the squared dev (speed > mean +
\* sample standard deviation), low-speed exactly when dev(j) < 0 and the
\* same; the reported standard deviation is that one; no record is both.
C10_SpeedPatternCounts ==
  pc \in {"time", "route", "environment", "done"} =>
    LET n == Len(df)
        dev(j) == n * df[j].speed_kmh - SumSeq(Column(df, "speed_kmh"))
        ss == SumSeq([j \in 1..n |-> dev(j) * dev(j)])
        high == {j \in 1..n : dev(j) > 0 /\ dev(j) * dev(j) * (n - 1) > ss}
        low == {j \in 1..n : dev(j) < 0 /\ dev(j) * dev(j) * (n - 1) > ss}
    IN /\ high_speed_segments = high
       /\ low_speed_segments = low
       /\ Cardinality(high_speed_segments) = Cardinality(high)
       /\ Cardinality(low_speed_segments) = Cardinality(low)
       /\ high_speed_segments \cap low_speed_segments = {}
       /\ (speed_std.kind = "nan") <=> (n = 1)
       /\ n > 1 => speed_std.num * n * n * (n - 1) = ss * speed_std.den

\* C10 witness: three records of which the first, of speed 0, is the one
\* low-speed record.
C10_Witness ==
  /\ pc \in {"time", "route", "environment", "done"}
  /\ Len(df) = 3
  /\ low_speed_segments = {1}
  /\ high_speed_segments = {}

====
